---- MODULE Spec2Model ----
(***************************************************************************)
(* A model of windows-window-util (src/index.mjs, src/index.cjs).          *)
(*                                                                         *)
(* The library is single-threaded JavaScript: a step of the model is the   *)
(* synchronous run of code between two await points (a native call being   *)
(* issued, or a native call returning and the continuation running up to   *)
(* the next await).  Native calls are the environment: their results are   *)
(* drawn from small sets.                                                  *)
(*                                                                         *)
(*   SpecGetW  : getW alone (buffer growth, decoding)                      *)
(*   SpecPath  : concurrent getPathByPid calls                             *)
(*   SpecFill  : fillWindowFields / getWindowByHwnd on one record          *)
(*   SpecBatch : getAllWindows                                             *)
(*   SpecBatchLive : getAllWindows when every native call returns          *)
(***************************************************************************)
EXTENDS Integers, Sequences, FiniteSets, TLC

(***************************************************************************)
(* Bounds of the model.                                                    *)
(***************************************************************************)
\* longest single string (UTF-16 units, without the terminator) the native
\* side holds in SpecGetW
MaxStrLen == 520
\* multi-string inputs: at most MaxRuns strings of at most MaxRunLen units
MaxRuns == 2
MaxRunLen == 1
\* getW: how many times the model lets one getW run double its length
MaxDoublings == 3
\* the same for a getW run inside getDriveMap, getPathByPid, getTitleByHwnd
MaxRetry == 1
\* windows of the OS, which are also the concurrent callers of SpecPath
NWin == 2
\* SpecFill and SpecBatch: how many native calls of one behaviour may do
\* anything but return at once (fail, or signal insufficient buffer)
MaxFaults == 1
\* SpecFill: how many calls the caller makes on its record
MaxFillCalls == 2
\* SpecBatch: how many getAllWindows calls the caller makes, one after another
MaxBatches == 2

(***************************************************************************)
(* Program constants.                                                      *)
(***************************************************************************)
\* let len = 256
InitLen == 256
\* wcharT.size on Windows: bytes per UTF-16 code unit
WcharSize == 2

\* e.message of the failure getW retries on
InsufficientMsg == "\"length\" is outside of buffer bounds"
\* messages of the other failures a native call is let to raise
OtherMsgs == {"native failure A", "native failure B"}

(***************************************************************************)
(* UTF-16 code units.  0 is the terminator; unit u > 0 stands for a        *)
(* character of the basic plane whose UTF-8 encoding takes u bytes         *)
(* (1: 'A', 2: U+00E9, 3: U+65E5).                                         *)
(***************************************************************************)
Units == {1, 2, 3}

RECURSIVE SeqsUpTo(_, _)
SeqsUpTo(S, n) ==
  IF n = 0 THEN {<<>>}
  ELSE LET shorter == SeqsUpTo(S, n - 1)
       IN  shorter \cup {Append(s, x) : s \in {t \in shorter : Len(t) = n - 1}, x \in S}

\* Buffer.byteLength(string): the length of the string's UTF-8 encoding
RECURSIVE ByteLength(_)
ByteLength(s) ==
  IF s = <<>> THEN 0 ELSE Head(s) + ByteLength(Tail(s))

\* What a native "fill this buffer" call has to deliver: a single string and
\* its terminator, or every string with its terminator and a final empty run.
RECURSIVE EncodeMulti(_)
EncodeMulti(strs) ==
  IF strs = <<>> THEN <<0>>
  ELSE Head(strs) \o <<0>> \o EncodeMulti(Tail(strs))

Encode(split, strs) ==
  IF split THEN EncodeMulti(strs) ELSE Head(strs) \o <<0>>

\* Buffer.alloc(len): len BYTES, zero filled; the units it really holds
RealCapacity(len) == len \div WcharSize

\* the unit at 1-based index i of the memory at the buffer's address;
\* Buffer.alloc zero-fills what the native call did not write
UnitAt(mem, i) == IF i <= Len(mem) THEN mem[i] ELSE 0

\* wcharT.toString(ref.reinterpretUntilZeros(buf, wcharT.size, offset)):
\* the units from byte offset `offset` up to the first zero unit
UntilZeros(mem, offset) ==
  LET i     == offset \div WcharSize + 1
      zeros == {j \in i..(Len(mem) + 1) : UnitAt(mem, j) = 0}
      end   == CHOOSE j \in zeros : \A k \in zeros : j <= k
  IN  IF i > Len(mem) THEN <<>> ELSE SubSeq(mem, i, end - 1)

\* the step of the multi-string loop: offset += (Buffer.byteLength(result) + 1) * 2
NextOffset(offset, result) == offset + (ByteLength(result) + 1) * 2

\* the while (result) loop and results.slice(0, -1)
RECURSIVE SplitZeros(_, _, _)
SplitZeros(mem, offset, results) ==
  LET result == UntilZeros(mem, offset)
  IN  IF result = <<>> THEN results
      ELSE SplitZeros(mem, NextOffset(offset, result), Append(results, result))

\* what getW returns once func has filled the buffer
Decode(split, mem) ==
  IF split THEN SplitZeros(mem, 0, <<>>) ELSE <<UntilZeros(mem, 0)>>

\* catch (e): retry exactly on the insufficient-buffer message
RetriesAll(msg) == TRUE
Retries(msg) == msg = InsufficientMsg

\* len *= 2
Grow(len) == len * 2

(***************************************************************************)
(* Values.  A string that the code takes apart (a device name, an image    *)
(* path) is a sequence of one-character strings.                           *)
(***************************************************************************)
Wins == 1..NWin
\* process ids: 0 (which JavaScript takes for false) and another
Pids == {0, 4}
\* a cache is a processMap object: "passed" is the one object the callers
\* hand on (the one getAllWindows creates), "default" the `processMap = {}`
\* a call gets when it passes none
CacheIds == {"passed", "default"}

\* const windowMembers = ['hwnd', 'title', 'pid', 'path', 'visible']
windowMembers == <<"hwnd", "title", "pid", "path", "visible">>
MemberSet == {windowMembers[i] : i \in 1..Len(windowMembers)}

DevV1 == <<"v", "1">>
DevV10 == <<"v", "1", "0">>
\* the drive table of the OS: the letters GetLogicalDriveStringsW reports, in
\* its order, each with the device name QueryDosDeviceW reports for it
OsDriveTable == << <<"C", DevV1>>, <<"D", DevV10>> >>
\* the image path GetProcessImageFileNameW reports for each process
OsImageTable == [p \in Pids |-> IF p = 0 THEN <<"z">> ELSE <<"v", "1", "0", "x">>]

\* GetLogicalDriveStringsW: the drive letters, and QueryDosDeviceW: the
\* device name of a letter (nothing is written for a letter the OS lacks)
OsLetters(table) == [i \in 1..Len(table) |-> table[i][1]]
OsDevice(table, letter) ==
  LET hits == {i \in 1..Len(table) : table[i][1] = letter}
  IN  IF hits = {} THEN <<>> ELSE table[CHOOSE i \in hits : TRUE][2]
\* GetProcessImageFileNameW(process, buf, len): nothing is written for the
\* NULL handle
OsImageOf(images, handle, p) == IF handle = 0 THEN <<>> ELSE images[p]

\* a value that may be undefined
Undefined == [def |-> FALSE, v |-> <<>>]
Defined(v) == [def |-> TRUE, v |-> v]

\* the driveMap argument: undefined, or Object.entries of the object given
NoDriveMap == [given |-> FALSE, map |-> <<>>]
GivenDriveMap(m) == [given |-> TRUE, map |-> m]
DriveMapArgs == {NoDriveMap, GivenDriveMap(<<>>), GivenDriveMap(OsDriveTable)}
\* the driveMap and processMap a caller of fillWindowFields passes: none,
\* or the result of getDriveMap and the processMap it shares
FillShares ==
  {[dm |-> NoDriveMap, cache |-> "default"],
   [dm |-> GivenDriveMap(OsDriveTable), cache |-> "passed"]}
\* GetForegroundWindow: the handle the caller of SpecFill works on
ActiveHwnd == 1

\* rawPath.indexOf(deviceName): where the first occurrence starts, or -1
IndexOf(s, d) ==
  LET hits == {k \in 0..(Len(s) - Len(d)) : SubSeq(s, k + 1, k + Len(d)) = d}
  IN  IF hits = {} THEN -1 ELSE CHOOSE k \in hits : \A j \in hits : k <= j

\* rawPath.replace(deviceName, driveLetter + ':'): the first occurrence
Replace(s, d, r) ==
  LET k == IndexOf(s, d)
  IN  IF k = -1 THEN s
      ELSE SubSeq(s, 1, k) \o r \o SubSeq(s, k + Len(d) + 1, Len(s))

\* for (const [driveLetter, deviceName] of Object.entries(driveMap)) { ... }
\* falling off the end of the loop returns undefined
RECURSIVE RewriteLastMatch(_, _)
RewriteLastMatch(rawPath, entries) ==
  IF entries = <<>> THEN Undefined
  ELSE LET driveLetter == Head(entries)[1]
           deviceName  == Head(entries)[2]
           later       == RewriteLastMatch(rawPath, Tail(entries))
       IN  IF later.def THEN later
           ELSE IF IndexOf(rawPath, deviceName) = 0
             THEN Defined(Replace(rawPath, deviceName, <<driveLetter, ":">>))
             ELSE Undefined
RECURSIVE RewriteOrRaw(_, _)
RewriteOrRaw(rawPath, entries) ==
  IF entries = <<>> THEN Defined(rawPath)
  ELSE LET driveLetter == Head(entries)[1]
           deviceName  == Head(entries)[2]
       IN  IF IndexOf(rawPath, deviceName) = 0
             THEN Defined(Replace(rawPath, deviceName, <<driveLetter, ":">>))
             ELSE RewriteOrRaw(rawPath, Tail(entries))
RECURSIVE Rewrite(_, _)
Rewrite(rawPath, entries) ==
  IF entries = <<>> THEN Undefined
  ELSE LET driveLetter == Head(entries)[1]
           deviceName  == Head(entries)[2]
       IN  IF IndexOf(rawPath, deviceName) = 0
             THEN Defined(Replace(rawPath, deviceName, <<driveLetter, ":">>))
             ELSE Rewrite(rawPath, Tail(entries))

(***************************************************************************)
(* A native call made through getW returns "ok", fails with the            *)
(* insufficient-buffer message (getW doubles len and calls again) or fails *)
(* otherwise (getW rethrows).  Any other native call returns or fails.     *)
(***************************************************************************)
LenCap == InitLen * 2^MaxRetry
\* q is what is left of the allowance of such outcomes (NoQuota: no limit)
NoQuota == -1
GetWEvents(len, q) ==
  {"ok"} \cup (IF q = 0 THEN {}
              ELSE {"other"} \cup (IF len < LenCap THEN {"insufficient"} ELSE {}))
NativeEvents(q) == {"ok"} \cup (IF q = 0 THEN {} ELSE {"other"})
Spend(q, ev) == IF ev \in {"other", "insufficient"} /\ q > 0 THEN q - 1 ELSE q

\* the failure a native call raises, named after the call
Failure(native) == "failed: " \o native

(***************************************************************************)
(* getDriveMap, as the state of one run of it.                             *)
(*   pc "letters": awaiting getW(GetLogicalDriveStringsW, true)            *)
(*   pc "devices": awaiting Promise.all of one getW(QueryDosDeviceW) per   *)
(*                 letter; dev[i] is the i-th of them                      *)
(* len is the len of a getW run that is going on, and 0 once it returned.  *)
(***************************************************************************)
DmNone ==
  [pc |-> "none", len |-> 0, letters |-> <<>>, dev |-> <<>>, err |-> "", runs |-> 0]

\* const driveLetters = await getW(..., true): the first attempt is issued
DmBegin(run) ==
  [pc |-> "letters", len |-> InitLen, letters |-> <<>>, dev |-> <<>>, err |-> "",
   runs |-> run.runs + 1]

\* GetLogicalDriveStringsW returned: driveLetters.map((dl) => dl[0]).map(async ...)
\* issues one QueryDosDeviceW per letter; Promise.all of no promise resolves
DmOnLetters(run, ev, list) ==
  CASE ev = "insufficient" -> [run EXCEPT !.len = Grow(run.len)]
    [] ev = "other"        -> [run EXCEPT !.pc = "failed",
                                          !.err = Failure("GetLogicalDriveStringsW")]
    [] OTHER               ->
         [run EXCEPT !.pc = IF list = <<>> THEN "done" ELSE "devices",
                     !.len = 0,
                     !.letters = list,
                     !.dev = [i \in 1..Len(list) |->
                                [st |-> "pending", len |-> InitLen, v |-> <<>>]]]

\* QueryDosDeviceW for the i-th letter returned; Promise.all resolves when
\* every one has, and rejects with the first failure
DmOnDeviceSwallows(run, i, ev, name) ==
  CASE ev = "insufficient" -> [run EXCEPT !.dev[i].len = Grow(run.dev[i].len)]
    [] OTHER               ->
         LET dev == [run.dev EXCEPT ![i] = [st |-> "ok", len |-> 0,
                                            v |-> IF ev = "other" THEN <<>> ELSE name]]
         IN  [run EXCEPT !.dev = dev,
                         !.pc = IF \A j \in 1..Len(dev) : dev[j].st = "ok"
                                  THEN "done" ELSE "devices"]
DmOnDevice(run, i, ev, name) ==
  CASE ev = "insufficient" -> [run EXCEPT !.dev[i].len = Grow(run.dev[i].len)]
    [] ev = "other"        -> [run EXCEPT !.pc = "failed",
                                          !.err = Failure("QueryDosDeviceW")]
    [] OTHER               ->
         LET dev == [run.dev EXCEPT ![i] = [st |-> "ok", len |-> 0, v |-> name]]
         IN  [run EXCEPT !.dev = dev,
                         !.pc = IF \A j \in 1..Len(dev) : dev[j].st = "ok"
                                  THEN "done" ELSE "devices"]

\* .then((result) => Object.fromEntries(result)), as Object.entries of it
DmResult(run) == [i \in 1..Len(run.letters) |-> <<run.letters[i], run.dev[i].v>>]

(***************************************************************************)
(* processMap[pid] and the lookup (the async arrow function) behind it.    *)
(***************************************************************************)
\* no property of that name
Absent == [st |-> "absent", def |-> FALSE, v |-> <<>>, e |-> ""]
Pending == [st |-> "pending", def |-> FALSE, v |-> <<>>, e |-> ""]
Resolved(val) == [st |-> "ok", def |-> val.def, v |-> val.v, e |-> ""]
Rejected(msg) == [st |-> "err", def |-> FALSE, v |-> <<>>, e |-> msg]
Settled(promise) == promise.st \in {"ok", "err"}

LkNone ==
  [pc |-> "none", dm |-> NoDriveMap, run |-> DmNone, handle |-> 0, hst |-> "none",
   len |-> 0, ret |-> Undefined, err |-> "", fails |-> {},
   started |-> 0, opens |-> 0, reads |-> 0, closes |-> 0]

\* processMap[pid] ??= ...: the right-hand side is evaluated when the
\* property is null or undefined
MissesWhenUnsettled(entry) == ~Settled(entry)
MissesWhenFailed(entry) == entry.st \in {"absent", "err"}
MissesWhenUndefined(entry) == entry.st = "absent" \/ (entry.st = "ok" /\ ~entry.def)
Misses(entry) == entry.st = "absent"

\* the handle OpenProcess gives for the lookup of pid p
HandleOf(p) == p + 1

\* await kernel32.OpenProcess(0x1000, false, pid) is issued
IssueOpen(L) == [L EXCEPT !.pc = "open", !.opens = @ + 1]

\* the lookup runs up to its first await: driveMap ??= await getDriveMap(),
\* or OpenProcess when a drive map was given
LkBegin(L, dm) ==
  LET fresh == [L EXCEPT !.dm = dm, !.started = @ + 1, !.handle = 0, !.len = 0,
                         !.ret = Undefined, !.err = "", !.fails = {}]
  IN  IF dm.given THEN IssueOpen(fresh)
      ELSE [fresh EXCEPT !.pc = "dm", !.run = DmBegin(@)]

\* } finally { await kernel32.CloseHandle(process) }
\* (rawPath, len and driveMap are not used after it)
FinallySkippedOnFailure(L, failed) ==
  IF failed THEN [L EXCEPT !.pc = "close", !.len = 0, !.dm = NoDriveMap]
  ELSE [L EXCEPT !.pc = "close", !.closes = @ + 1, !.len = 0, !.dm = NoDriveMap]
Finally(L, failed) ==
  [L EXCEPT !.pc = "close", !.closes = @ + 1, !.len = 0, !.dm = NoDriveMap]

\* what is left of a lookup that has settled: what it did, not what it held
LkSettled(L, hst) ==
  [LkNone EXCEPT !.pc = "done", !.hst = hst, !.fails = L.fails, !.started = L.started, !.opens = L.opens,
                 !.reads = L.reads, !.closes = L.closes,
                 !.run = [DmNone EXCEPT !.runs = L.run.runs]]

(***************************************************************************)
(* Window records.  A member of a record is undefined or holds a value;    *)
(* what the OS reports for a window is its profile.                        *)
(***************************************************************************)
\* GetWindowTextW, IsWindowVisible and GetWindowThreadProcessId of a window
Profile(title, visible, pid) == [title |-> title, visible |-> visible, pid |-> pid]
ProfileList == <<Profile("a", TRUE, 4), Profile("", TRUE, 4), Profile("a", FALSE, 0)>>
Profiles == {ProfileList[i] : i \in 1..Len(ProfileList)}
\* the snapshots of the OS a getAllWindows call is made in: the windows
\* take the profiles in turn, from any first one
Snapshots ==
  {[w \in Wins |-> ProfileList[((w + k) % Len(ProfileList)) + 1]] :
     k \in 0..(Len(ProfileList) - 1)}

\* the value of its kind that JavaScript takes for false
Falsy(m) ==
  CASE m = "title"   -> ""
    [] m = "path"    -> <<>>
    [] m = "visible" -> FALSE
    [] OTHER         -> 0

NoField(m) == [def |-> FALSE, v |-> Falsy(m)]

\* before new Window(...)
NoRecord ==
  [hwnd |-> NoField("hwnd"), title |-> NoField("title"), pid |-> NoField("pid"),
   path |-> NoField("path"), visible |-> NoField("visible")]

\* new Window(hwnd): windowMembers.forEach((member, i) => (this[member] = args[i]))
NewWindow(hwnd) == [NoRecord EXCEPT !.hwnd = Defined(hwnd)]

\* window[member], taken as a condition
Truthy(rec, m) == rec[m].def /\ rec[m].v # Falsy(m)

\* the fields argument: undefined, or a list
NoFields == [given |-> FALSE, list |-> {}]
Fields(list) == [given |-> TRUE, list |-> list]
FieldArgs == {NoFields, Fields({}), Fields({"path"}), Fields({"title", "visible"})}

\* fields ??= [...windowMembers]
FieldsOrAll(arg) == IF arg.given THEN arg.list ELSE MemberSet

(***************************************************************************)
(* `values` of a fillWindowFields call: per member, the promise its def    *)
(* returned.  The title promise carries the len of its getW run; the path  *)
(* promise is waiting for values.pid ("pid") or for processMap[pid]        *)
(* ("lookup").                                                             *)
(***************************************************************************)
NoPromise(m) ==
  [st |-> "none", def |-> FALSE, v |-> Falsy(m), e |-> "", len |-> 0,
   wait |-> "none", pid |-> 0]

\* defs[member](values), up to its first await
Issued(m, rec) ==
  CASE m = "hwnd"  -> [NoPromise(m) EXCEPT !.st = "ok", !.def = rec.hwnd.def,
                                           !.v = rec.hwnd.v]
    [] m = "title" -> [NoPromise(m) EXCEPT !.st = "pending", !.len = InitLen]
    [] m = "path"  -> [NoPromise(m) EXCEPT !.st = "pending", !.wait = "pid"]
    [] OTHER       -> [NoPromise(m) EXCEPT !.st = "pending"]

NoValues ==
  [hwnd |-> NoPromise("hwnd"), title |-> NoPromise("title"), pid |-> NoPromise("pid"),
   path |-> NoPromise("path"), visible |-> NoPromise("visible")]

Fulfil(promise, def, v) ==
  [promise EXCEPT !.st = "ok", !.def = def, !.v = v, !.len = 0, !.wait = "none"]
Reject(promise, msg) ==
  [promise EXCEPT !.st = "err", !.e = msg, !.len = 0, !.wait = "none"]

\* const pid = await values.pid; return wwutil.getPathByPid(pid, ...) has
\* been called: the path promise follows processMap[pid]
Joined(promise, cache, pmNow) ==
  IF promise.st = "pending" /\ promise.wait = "lookup"
       /\ Settled(pmNow[cache][promise.pid])
    THEN LET entry == pmNow[cache][promise.pid]
         IN  IF entry.st = "ok" THEN Fulfil(promise, entry.def, entry.v)
             ELSE Reject(promise, entry.e)
    ELSE promise

(***************************************************************************)
(* A fillWindowFields call.                                                *)
(*   pc "run": in the write loop, awaiting values[keys[idx]]               *)
(*   entry: the record as the call found it; issued: the members a native  *)
(*   call or a path lookup was issued for; again: the call before it on    *)
(*   this record succeeded and had the same arguments; pidq: how many      *)
(*   times the call called defs.pid()                                      *)
(***************************************************************************)
FcNone ==
  [pc |-> "idle", fields |-> {}, dm |-> NoDriveMap, cache |-> "passed",
   keys |-> <<>>, idx |-> 1, err |-> "", entry |-> NoRecord, issued |-> {},
   again |-> FALSE, fresh |-> FALSE, n |-> 0, pidq |-> 0]

\* if (!fields.includes(member) || window[member]) continue
Wanted(rec, fields) == {m \in MemberSet : m \in fields /\ ~Truthy(rec, m)}

\* values.pid ??= defs.pid(): the path def calls defs.pid() when no pid
\* promise is in values, and puts the promise into values
PidIssuedFor(wanted) == IF "path" \in wanted THEN {"pid"} ELSE {}
PidNotStored(wanted) == {}
PidStoredFor(wanted) == IF "path" \in wanted THEN {"pid"} ELSE {}

\* the right-hand side of values.pid ??= defs.pid() is evaluated when the
\* loop has put no pid promise into values (pid comes before path in
\* windowMembers)
PathCallsPidAlways(wanted) == TRUE
PathCallsPid(wanted) == "pid" \notin wanted
\* how many times the call calls defs.pid(), each a GetWindowThreadProcessId
PidQueries(wanted) ==
  (IF "pid" \in wanted THEN 1 ELSE 0)
    + (IF "path" \in wanted /\ PathCallsPid(wanted) THEN 1 ELSE 0)

\* Object.entries(values): the keys in the order they were inserted, which
\* is the order of windowMembers
ValueKeys(stored) == SelectSeq(windowMembers, LAMBDA m : m \in stored)

\* for (const [member, value] of Object.entries(values)) window[member] = await value
\* runs on until it meets a promise that has not settled
RECURSIVE WriteLoop(_, _, _)
WriteLoopOf(args) ==
  LET rec == args[1]
      f   == args[2]
      v   == args[3]
  IN
  IF f.pc # "run" THEN [rec |-> rec, f |-> f]
  ELSE IF f.idx > Len(f.keys) THEN [rec |-> rec, f |-> [f EXCEPT !.pc = "ok"]]
  ELSE LET m == f.keys[f.idx]
       IN  CASE v[m].st = "ok" ->
                  WriteLoop([rec EXCEPT ![m] = [def |-> v[m].def, v |-> v[m].v]],
                            [f EXCEPT !.idx = @ + 1], v)
             [] v[m].st = "err" ->
                  [rec |-> rec, f |-> [f EXCEPT !.pc = "failed", !.err = v[m].e]]
             [] OTHER -> [rec |-> rec, f |-> f]
\* (a call is made on the values of its arguments)
WriteLoop(rec, f, v) == CHOOSE r \in {WriteLoopOf(x) : x \in {<<rec, f, v>>}} : TRUE

\* fillWindowFields(window, fields, driveMap, processMap) up to its first
\* await: the record, the call and its values
FillWindowFields(rec, old, arg, dm, cache, fresh) ==
  LET fields == FieldsOrAll(arg)
      wanted == Wanted(rec, fields)
      issued == wanted \cup PidIssuedFor(wanted)
      v      == [hwnd    |-> IF "hwnd" \in issued THEN Issued("hwnd", rec)
                                                  ELSE NoPromise("hwnd"),
                 title   |-> IF "title" \in issued THEN Issued("title", rec)
                                                   ELSE NoPromise("title"),
                 pid     |-> IF "pid" \in issued THEN Issued("pid", rec)
                                                 ELSE NoPromise("pid"),
                 path    |-> IF "path" \in issued THEN Issued("path", rec)
                                                  ELSE NoPromise("path"),
                 visible |-> IF "visible" \in issued THEN Issued("visible", rec)
                                                     ELSE NoPromise("visible")]
      f      == [pc |-> "run", fields |-> fields, dm |-> dm, cache |-> cache,
                 keys |-> ValueKeys(wanted \cup PidStoredFor(wanted)), idx |-> 1,
                 err |-> "", entry |-> rec, issued |-> issued \ {"hwnd", "path"},
                 again |-> ~fresh /\ old.pc = "ok" /\ old.fields = fields
                             /\ old.dm = dm /\ old.cache = cache,
                 fresh |-> fresh, n |-> old.n + 1, pidq |-> PidQueries(wanted)]
      wl     == WriteLoop(rec, f, v)
  IN  [rec |-> wl.rec, f |-> wl.f, v |-> v]

(***************************************************************************)
(* A getAllWindows call.                                                   *)
(*   pc "dm": awaiting getDriveMap(); "enum": awaiting EnumWindows;        *)
(*   "pass1": awaiting Promise.all of the getWindowByHwnd calls;           *)
(*   "pass2": awaiting Promise.all of the fillWindowFields calls           *)
(***************************************************************************)
\* prev: what the call before this one returned, when it returned
NoPrev == [ok |-> FALSE, all |-> FALSE, arg |-> NoFields, out |-> <<>>]
BatchNone ==
  [pc |-> "idle", all |-> FALSE, arg |-> NoFields, run |-> DmNone, hwnds |-> <<>>,
   out |-> <<>>, err |-> "", n |-> 0, prev |-> NoPrev]

\* the arguments of a getAllWindows call: getAllWindows() with both
\* defaults, or getAllWindows(all, requireFields) with a list
BatchFieldLists == {Fields({}), Fields({"path"}), Fields({"title", "path"})}
BatchArgs ==
  {[all |-> FALSE, arg |-> NoFields]}
    \cup {[all |-> all, arg |-> arg] : all \in BOOLEAN, arg \in BatchFieldLists}

RangeOf(seq) == {seq[i] : i \in 1..Len(seq)}

\* const firstFields = (() => { if (all) { return requireFields } else { ... } })()
FirstFields(all, arg) == IF all THEN arg ELSE Fields({"title", "visible"})

\* windows.filter((window) => window.visible && window.title)
PassesIfVisible(rec) == Truthy(rec, "visible")
Passes(rec) == Truthy(rec, "visible") /\ Truthy(rec, "title")

\* the driveMap and processMap getAllWindows hands to every call it makes
SharesNothing(run) == [dm |-> NoDriveMap, cache |-> "default"]
BatchShare(run) == [dm |-> GivenDriveMap(DmResult(run)), cache |-> "passed"]

\* Promise.all of the calls on the records of hwnds: rejected with the
\* first failure, resolved when every call has resolved
PromiseAllButPending(fcs, hwnds) ==
  LET failed == {i \in 1..Len(hwnds) : fcs[hwnds[i]].pc = "failed"}
  IN  IF failed # {}
        THEN [st |-> "err",
              e |-> fcs[hwnds[CHOOSE i \in failed : \A j \in failed : i <= j]].err]
      ELSE [st |-> "ok", e |-> ""]
PromiseAll(fcs, hwnds) ==
  LET failed == {i \in 1..Len(hwnds) : fcs[hwnds[i]].pc = "failed"}
  IN  IF failed # {}
        THEN [st |-> "err",
              e |-> fcs[hwnds[CHOOSE i \in failed : \A j \in failed : i <= j]].err]
      ELSE IF \A i \in 1..Len(hwnds) : fcs[hwnds[i]].pc = "ok"
        THEN [st |-> "ok", e |-> ""]
      ELSE [st |-> "pending", e |-> ""]

\* hwnds.map((hwnd) => wwutil.getWindowByHwnd(hwnd, firstFields, driveMap, processMap))
\* (fresh), and filteredWindows.map(async (window) =>
\* wwutil.fillWindowFields(window, requireFields, driveMap, processMap))
FillEachOf(args) ==
  LET G     == args[1]
      hwnds == args[2]
      arg   == args[3]
      share == args[4]
      fresh == args[5]
      call1(w) == FillWindowFields(IF fresh THEN NewWindow(w) ELSE G.win[w],
                                   G.fc[w], arg, share.dm, share.cache, fresh)
      on(w)    == w \in RangeOf(hwnds)
  IN  [G EXCEPT !.win = [w \in Wins |-> IF on(w) THEN call1(w).rec ELSE @[w]],
                !.val = [w \in Wins |-> IF on(w) THEN call1(w).v ELSE @[w]],
                !.fc  = [w \in Wins |-> IF on(w) THEN call1(w).f ELSE @[w]]]
\* (a call is made on the values of its arguments)
FillEach(G, hwnds, arg, share, fresh) ==
  CHOOSE r \in {FillEachOf(x) : x \in {<<G, hwnds, arg, share, fresh>>}} : TRUE

\* getAllWindows after its second Promise.all
AfterPass2Of(G) ==
  LET all2 == PromiseAll(G.fc, G.batch.out)
  IN  CASE all2.st = "err" -> [G EXCEPT !.batch.pc = "failed", !.batch.err = all2.e]
        [] all2.st = "ok"  -> [G EXCEPT !.batch.pc = "done"]
        [] OTHER           -> G
\* (a call is made on the values of its arguments)
AfterPass2(G) == CHOOSE r \in {AfterPass2Of(x) : x \in {G}} : TRUE

\* getAllWindows after its first Promise.all: the filter, and the second pass
AfterPass1(G) ==
  LET B    == G.batch
      all1 == PromiseAll(G.fc, B.hwnds)
      out  == IF B.all THEN B.hwnds
              ELSE SelectSeq(B.hwnds, LAMBDA w : Passes(G.win[w]))
  IN  CASE all1.st = "err" -> [G EXCEPT !.batch.pc = "failed", !.batch.err = all1.e]
        [] all1.st = "ok"  ->
             AfterPass2(FillEach([G EXCEPT !.batch.pc = "pass2", !.batch.out = out],
                                 out, B.arg, BatchShare(B.run), FALSE))
        [] OTHER           -> G

\* what getAllWindows does when calls it awaits have settled
BatchGoesOnOf(G) ==
  CASE G.batch.pc = "pass1" -> AfterPass1(G)
    [] G.batch.pc = "pass2" -> AfterPass2(G)
    [] OTHER                -> G
\* (a call is made on the values of its arguments)
BatchGoesOn(G) == CHOOSE r \in {BatchGoesOnOf(x) : x \in {G}} : TRUE

VARIABLES
  gwSplit,    \* getW: splitZeros
  gwStrs,     \* getW: the strings the native side holds (one in single mode)
  gwLen,      \* getW: len
  gwPc,       \* getW: "call" (awaiting func), "returned", "thrown", "crashed", "off"
  gwOut,      \* getW: the value returned (a sequence of strings; one in single mode)
  gwErr,      \* getW: the message of the failure thrown to the caller
  gwLog,      \* getW: per attempt, <<len passed, real capacity, outcome of func>>
  pm,         \* pm[c][p]: processMap[p] of cache c, a promise
  lk,         \* lk[c][p]: the lookup behind pm[c][p]
  osDrives,   \* the OS: its drive table
  osImage,    \* the OS: osImage[p], the image path of process p
  osWin,      \* the OS: osWin[w], the title, visibility and process of window w
  quota,      \* how many more native calls may fail or signal insufficient buffer
  call,       \* call[w]: caller w's getPathByPid call
  win,        \* win[w]: the Window record made for handle w
  val,        \* val[w]: `values` of the latest fillWindowFields call on win[w]
  fc,         \* fc[w]: the latest fillWindowFields call on win[w]
  batch       \* the getAllWindows call

gwVars == <<gwSplit, gwStrs, gwLen, gwPc, gwOut, gwErr, gwLog>>
osVars == <<osDrives, osImage, osWin>>
cacheVars == <<pm, lk>>
fillVars == <<win, val, fc, batch>>

vars ==
  <<gwSplit, gwStrs, gwLen, gwPc, gwOut, gwErr, gwLog, pm, lk, osDrives, osImage,
    osWin, quota, call, win, val, fc, batch>>

GwOff ==
  /\ gwSplit = FALSE
  /\ gwStrs = <<>>
  /\ gwLen = 0
  /\ gwPc = "off"
  /\ gwOut = <<>>
  /\ gwErr = ""
  /\ gwLog = <<>>

\* no cache holds anything and nobody has called
\* (late: the entry had settled when the call was made)
CallNone ==
  [st |-> "none", pid |-> 0, cache |-> "passed", def |-> FALSE, v |-> <<>>, e |-> "",
   late |-> FALSE]

OsInit ==
  /\ osDrives = OsDriveTable
  /\ osImage = OsImageTable

\* every processMap is empty
CacheOff ==
  /\ pm = [c \in CacheIds |-> [p \in Pids |-> Absent]]
  /\ lk = [c \in CacheIds |-> [p \in Pids |-> LkNone]]

PathOff == call = [w \in Wins |-> CallNone]

BatchOff == batch = BatchNone

\* no record has been made and nothing has been called
FillOff ==
  /\ win = [w \in Wins |-> NoRecord]
  /\ val = [w \in Wins |-> NoValues]
  /\ fc = [w \in Wins |-> FcNone]

(***************************************************************************)
(* getW                                                                    *)
(***************************************************************************)
LongStr(n) == [i \in 1..n |-> 1]

SingleInputs ==
  {<<s>> : s \in SeqsUpTo(Units, MaxRunLen) \cup {LongStr(n) : n \in 0..MaxStrLen}}

MultiInputs == SeqsUpTo(SeqsUpTo(Units, MaxRunLen) \ {<<>>}, MaxRuns)

GwNeed == Len(Encode(gwSplit, gwStrs))

InitGetW ==
  /\ gwSplit \in BOOLEAN
  /\ gwStrs \in (IF gwSplit THEN MultiInputs ELSE SingleInputs)
  /\ gwLen = InitLen
  /\ gwPc = "call"
  /\ gwOut = <<>>
  /\ gwErr = ""
  /\ gwLog = <<>>
  /\ OsInit
  /\ osWin = [w \in Wins |-> Profile("a", TRUE, 4)]
  /\ quota = NoQuota
  /\ CacheOff
  /\ PathOff
  /\ FillOff
  /\ BatchOff

GwLogged(outcome) ==
  gwLog' = Append(gwLog, <<gwLen, RealCapacity(gwLen), outcome>>)

\* func(buf, len) fills the buffer and the data fits the allocation.
GwFilled ==
  /\ gwPc = "call"
  /\ GwNeed <= RealCapacity(gwLen)
  /\ gwOut' = Decode(gwSplit, Encode(gwSplit, gwStrs))
  /\ gwPc' = "returned"
  /\ GwLogged("ok")
  /\ UNCHANGED <<gwSplit, gwStrs, gwLen, gwErr>>
  /\ UNCHANGED <<osVars, quota, cacheVars, call, fillVars>>

\* func(buf, len) is told `len` units and writes that much into an
\* allocation of len bytes: the write runs past the end of the buffer.
\* What is read back from there is not defined: the data as written, the
\* data cut where the allocation ends, or no result at all.
GwOverrun ==
  /\ gwPc = "call"
  /\ RealCapacity(gwLen) < GwNeed
  /\ GwNeed <= gwLen
  /\ \E fate \in {"intact", "cut", "crash"} :
       LET data == Encode(gwSplit, gwStrs)
           cut  == [i \in 1..Len(data) |->
                      IF i = RealCapacity(gwLen) + 1 THEN 0 ELSE data[i]]
       IN  /\ gwPc' = IF fate = "crash" THEN "crashed" ELSE "returned"
           /\ gwOut' = CASE fate = "intact" -> Decode(gwSplit, data)
                         [] fate = "cut"    -> Decode(gwSplit, cut)
                         [] OTHER           -> <<>>
           /\ GwLogged("overrun")
  /\ UNCHANGED <<gwSplit, gwStrs, gwLen, gwErr>>
  /\ UNCHANGED <<osVars, quota, cacheVars, call, fillVars>>

\* the attempt throws (func, or the decoding of what it wrote): catch (e)
\* retries with len doubled, or rethrows.
GwFailed ==
  /\ gwPc = "call"
  /\ \E msg \in {InsufficientMsg} \cup OtherMsgs :
       /\ msg = InsufficientMsg => Len(gwLog) < MaxDoublings
       /\ GwLogged(msg)
       /\ IF Retries(msg)
            THEN /\ gwLen' = Grow(gwLen)
                 /\ UNCHANGED <<gwPc, gwErr>>
            ELSE /\ gwPc' = "thrown"
                 /\ gwErr' = msg
                 /\ UNCHANGED gwLen
  /\ UNCHANGED <<gwSplit, gwStrs, gwOut>>
  /\ UNCHANGED <<osVars, quota, cacheVars, call, fillVars>>

NextGetW ==
  \/ GwFilled
  \/ GwOverrun
  \/ GwFailed

SpecGetW == InitGetW /\ [][NextGetW]_vars

(***************************************************************************)
(* Claims about getW (SpecGetW).                                           *)
(***************************************************************************)
GwOutcome(i) == gwLog[i][3]
GwLenAt(i) == gwLog[i][1]

\* the supplied call kept to its contract on every attempt so far: it
\* signalled insufficient buffer exactly when told a length below the size
\* of the data, and filled the buffer otherwise
GwContract ==
  \A i \in 1..Len(gwLog) :
    IF GwLenAt(i) < GwNeed THEN GwOutcome(i) = InsufficientMsg
    ELSE GwOutcome(i) \in {"ok", "overrun"}

\* C8: in multi-string mode getW returns exactly the strings that were
\* written, in order, without the terminating empty run.
C8_MultiStringExact ==
  (gwPc = "returned" /\ gwSplit) => gwOut = gwStrs

\* C9: with a call that keeps to its contract the length doubles from one
\* attempt to the next, getW returns, and what it returns is the whole
\* string.
C9_NoTruncation ==
  (~gwSplit /\ GwContract) =>
    /\ \A i \in 1..(Len(gwLog) - 1) : GwLenAt(i + 1) = 2 * GwLenAt(i)
    /\ gwPc \in {"call", "returned"}
    /\ gwPc = "call" => (gwLog = <<>> \/ gwLen < 2 * GwNeed)
    /\ gwPc = "returned" => gwOut = gwStrs

\* C10: the insufficient-buffer failure never reaches the caller of getW:
\* it is followed by another attempt with the length doubled.  Any other
\* failure ends getW on the attempt where it occurs, and is what getW
\* throws.
C10_ErrorPolicy ==
  /\ gwErr # InsufficientMsg
  /\ gwPc = "thrown" =>
       (Len(gwLog) >= 1 /\ GwOutcome(Len(gwLog)) \in OtherMsgs
        /\ gwErr = GwOutcome(Len(gwLog)))
  /\ \A i \in 1..Len(gwLog) :
       /\ GwOutcome(i) \in OtherMsgs => (i = Len(gwLog) /\ gwPc = "thrown")
       /\ GwOutcome(i) = InsufficientMsg =>
            IF i < Len(gwLog) THEN GwLenAt(i + 1) = 2 * GwLenAt(i)
            ELSE gwPc = "call" /\ gwLen = 2 * GwLenAt(i)

\* getW threw a native failure on its third attempt, after two retries
C10_Witness ==
  /\ gwPc = "thrown"
  /\ Len(gwLog) = 3
  /\ GwOutcome(1) = InsufficientMsg
  /\ GwOutcome(2) = InsufficientMsg
  /\ gwErr = GwOutcome(3)

\* the units the buffer of attempt i really held
GwCapacityAt(i) == gwLog[i][2]

\* C17: on every attempt of getW the buffer handed to the call holds at
\* least as many units as the length passed with it; the first length is
\* 256 and each further one is twice the one before.
C17_CapacityCoversLength ==
  \A i \in 1..Len(gwLog) :
    /\ GwCapacityAt(i) >= GwLenAt(i)
    /\ GwLenAt(i) = InitLen * 2^(i - 1)

(***************************************************************************)
(* getPathByPid                                                            *)
(***************************************************************************)
\* wwutil.getPathByPid(pid, driveMap, processMap) up to `await processMap[pid]`:
\* the entry is claimed and its lookup started in the same step
GetPathByPid(c, p, dm, pmNow, lkNow) ==
  IF Misses(pmNow[c][p])
    THEN /\ pm' = [pmNow EXCEPT ![c][p] = Pending]
         /\ lk' = [lkNow EXCEPT ![c][p] = LkBegin(@, dm)]
    ELSE /\ pm' = pmNow
         /\ lk' = lkNow

\* a `processMap = {}` default is a new object on every call
FreshCache(f, c, empty) == [f EXCEPT ![c] = [p \in Pids |-> empty]]
CacheAtCall(f, c, empty) == IF c = "default" THEN FreshCache(f, c, empty) ELSE f

\* caller w calls getPathByPid(p, dm, processMap), every caller with the
\* same processMap
PathCall(w) ==
  /\ call[w].st # "pending"
  /\ \E p \in Pids, dm \in DriveMapArgs :
       /\ call' = [call EXCEPT ![w] = [CallNone EXCEPT !.st = "pending", !.pid = p,
                                                       !.late = Settled(pm["passed"][p])]]
       /\ GetPathByPid("passed", p, dm, pm, lk)
  /\ UNCHANGED <<gwVars, osVars, quota, fillVars>>

\* return await processMap[pid]
PathSettle(w) ==
  /\ call[w].st = "pending"
  /\ LET entry == pm[call[w].cache][call[w].pid]
     IN  /\ Settled(entry)
         /\ call' = [call EXCEPT ![w].st = entry.st, ![w].def = entry.def,
                                 ![w].v = entry.v, ![w].e = entry.e]
  /\ UNCHANGED <<gwVars, osVars, quota, cacheVars, fillVars>>

\* the lookup goes on after its getDriveMap run moved to `run`
LkAfterDm(c, p, run) ==
  LET L == [lk[c][p] EXCEPT !.run = run]
  IN  CASE run.pc = "done" ->
             /\ lk' = [lk EXCEPT ![c][p] =
                         IssueOpen([L EXCEPT !.dm = GivenDriveMap(DmResult(run)),
                                             !.run = [DmNone EXCEPT !.runs = run.runs]])]
             /\ pm' = pm
        [] run.pc = "failed" ->
             /\ lk' = [lk EXCEPT ![c][p] = LkSettled([L EXCEPT !.fails = {"getDriveMap"}], L.hst)]
             /\ pm' = [pm EXCEPT ![c][p] = Rejected(run.err)]
        [] OTHER ->
             /\ lk' = [lk EXCEPT ![c][p] = L]
             /\ pm' = pm

LkLetters(c, p) ==
  /\ lk[c][p].pc = "dm"
  /\ lk[c][p].run.pc = "letters"
  /\ \E ev \in GetWEvents(lk[c][p].run.len, quota) :
       /\ LkAfterDm(c, p, DmOnLetters(lk[c][p].run, ev, OsLetters(osDrives)))
       /\ quota' = Spend(quota, ev)
  /\ UNCHANGED <<gwVars, osVars>>

LkDevice(c, p) ==
  /\ lk[c][p].pc = "dm"
  /\ lk[c][p].run.pc = "devices"
  /\ \E i \in 1..Len(lk[c][p].run.dev) :
       /\ lk[c][p].run.dev[i].st = "pending"
       /\ \E ev \in GetWEvents(lk[c][p].run.dev[i].len, quota) :
            /\ LkAfterDm(c, p, DmOnDevice(lk[c][p].run, i, ev,
                                          OsDevice(osDrives, lk[c][p].run.letters[i])))
            /\ quota' = Spend(quota, ev)
  /\ UNCHANGED <<gwVars, osVars>>

\* OpenProcess returned a handle, returned NULL, or failed; with a handle the
\* first GetProcessImageFileNameW attempt of getW is issued
LkOpened(c, p) ==
  /\ lk[c][p].pc = "open"
  /\ \E ev \in {"handle", "null"} \cup (NativeEvents(quota) \ {"ok"}) :
       /\ quota' = Spend(quota, ev)
       /\ IF ev = "other"
            THEN /\ lk' = [lk EXCEPT ![c][p] = LkSettled([@ EXCEPT !.fails = {"open"}], @.hst)]
                 /\ pm' = [pm EXCEPT ![c][p] = Rejected(Failure("OpenProcess"))]
            ELSE /\ lk' = [lk EXCEPT ![c][p].pc = "read",
                                     ![c][p].handle = IF ev = "handle" THEN HandleOf(p) ELSE 0,
                                     ![c][p].hst = IF ev = "handle" THEN "open" ELSE "none",
                                     ![c][p].len = InitLen,
                                     ![c][p].reads = @ + 1]
                 /\ pm' = pm
  /\ UNCHANGED <<gwVars, osVars>>

\* GetProcessImageFileNameW returned: the loop over the drive map runs, and
\* the finally clause issues CloseHandle
LkRead(c, p) ==
  /\ lk[c][p].pc = "read"
  /\ \E ev \in GetWEvents(lk[c][p].len, quota) :
       /\ quota' = Spend(quota, ev)
       /\ lk' = [lk EXCEPT ![c][p] =
            CASE ev = "insufficient" -> [lk[c][p] EXCEPT !.len = Grow(lk[c][p].len)]
              [] ev = "other" ->
                   Finally([lk[c][p] EXCEPT !.err = Failure("GetProcessImageFileNameW"),
                                            !.fails = {"read"}],
                           TRUE)
              [] OTHER ->
                   Finally([lk[c][p] EXCEPT !.ret =
                              Rewrite(OsImageOf(osImage, lk[c][p].handle, p),
                                      lk[c][p].dm.map)],
                           FALSE)]
  /\ UNCHANGED <<gwVars, osVars, pm>>

\* CloseHandle returned or failed: the lookup settles
LkClosed(c, p) ==
  /\ lk[c][p].pc = "close"
  /\ \E ev \in NativeEvents(quota) :
       /\ quota' = Spend(quota, ev)
       /\ lk' = [lk EXCEPT ![c][p] =
            LkSettled([@ EXCEPT !.fails = IF ev = "ok" THEN @ ELSE @ \cup {"close"}],
                      IF @.hst = "open"
                        THEN (IF ev = "ok" THEN "closed" ELSE "close failed")
                        ELSE @.hst)]
       /\ pm' = [pm EXCEPT ![c][p] =
            CASE ev = "other"         -> Rejected(Failure("CloseHandle"))
              [] lk[c][p].err # ""    -> Rejected(lk[c][p].err)
              [] OTHER                -> Resolved(lk[c][p].ret)]
  /\ UNCHANGED <<gwVars, osVars>>

Lookups ==
  \E c \in CacheIds, p \in Pids :
    \/ LkLetters(c, p)
    \/ LkDevice(c, p)
    \/ LkOpened(c, p)
    \/ LkRead(c, p)
    \/ LkClosed(c, p)

InitPath ==
  /\ GwOff
  /\ OsInit
  /\ osWin = [w \in Wins |-> Profile("a", TRUE, 4)]
  /\ quota = NoQuota
  /\ CacheOff
  /\ PathOff
  /\ FillOff
  /\ BatchOff

NextPath ==
  \/ \E w \in Wins : PathCall(w)
  \/ \E w \in Wins : PathSettle(w)
  \/ Lookups /\ UNCHANGED <<call, fillVars>>

SpecPath == InitPath /\ [][NextPath]_vars

(***************************************************************************)
(* Claims about getPathByPid (SpecPath).                                   *)
(***************************************************************************)
\* the callers whose latest call is for pid p
CallersOf(p) == {w \in Wins : call[w].st # "none" /\ call[w].pid = p}
SameOutcome(a, b) == a.st = b.st /\ a.def = b.def /\ a.v = b.v /\ a.e = b.e

\* C1: however many calls for a pid share the processMap, and however their
\* awaits interleave, one lookup is started for the pid and never a second:
\* OpenProcess, the image-path read and CloseHandle are each issued at most
\* once, each exactly once when the lookup produces a result, and every
\* call that has settled settled as the entry of the first call did.
C1_OneLookupPerPid ==
  \A p \in Pids :
    LET L     == lk["passed"][p]
        entry == pm["passed"][p]
    IN  /\ CallersOf(p) # {} => (L.started = 1 /\ entry.st # "absent")
        /\ L.started <= 1 /\ L.opens <= 1 /\ L.reads <= 1 /\ L.closes <= 1
        /\ entry.st = "ok" => (L.opens = 1 /\ L.reads = 1 /\ L.closes = 1)
        /\ \A w \in CallersOf(p) :
             call[w].st # "pending" => (Settled(entry) /\ SameOutcome(call[w], entry))

\* two calls for one pid are awaiting the entry while its one lookup is at
\* CloseHandle
C1_Witness ==
  \E p \in Pids : \E w1, w2 \in Wins :
    /\ w1 # w2
    /\ call[w1].st = "pending" /\ call[w1].pid = p
    /\ call[w2].st = "pending" /\ call[w2].pid = p
    /\ lk["passed"][p].pc = "close"
    /\ lk["passed"][p].opens = 1

\* C2: a lookup that has settled leaves no handle open: a handle OpenProcess
\* gave was handed to CloseHandle exactly once, and CloseHandle had returned,
\* before the lookup settled, whether the read gave a path, gave no match or
\* failed; and a read failure is still what the lookup fails with after the
\* close.
C2_HandleReleased ==
  \A c \in CacheIds, p \in Pids :
    LET L == lk[c][p]
    IN  /\ L.closes <= 1
        /\ L.hst = "open" => (pm[c][p].st = "pending" /\ L.pc \in {"read", "close"})
        /\ Settled(pm[c][p]) =>
             /\ L.hst # "open"
             /\ L.hst # "none" => L.closes = 1
             /\ L.reads = 1 => L.closes = 1
             /\ L.fails = {"read"} =>
                  pm[c][p] = Rejected(Failure("GetProcessImageFileNameW"))

\* a lookup whose read failed has closed its handle and settled
C2_Witness ==
  \E p \in Pids :
    /\ pm["passed"][p].st = "err"
    /\ lk["passed"][p].fails = {"read"}
    /\ lk["passed"][p].hst = "closed"

\* d is a prefix of s
IsPrefix(d, s) == Len(d) <= Len(s) /\ SubSeq(s, 1, Len(d)) = d
\* the entries of a drive map whose device name is a prefix of raw
PrefixHits(raw, map) == {i \in 1..Len(map) : IsPrefix(map[i][2], raw)}
\* raw with the device name of entry i taken off its start and the letter
\* of the entry and a colon put there
WithLetter(raw, map, i) ==
  <<map[i][1], ":">> \o SubSeq(raw, Len(map[i][2]) + 1, Len(raw))

\* C11: when the image-path read of a lookup returns and a device name of
\* the lookup's drive map is a prefix of the raw path, the lookup's result is
\* the raw path with the first such device name, in the order of the drive
\* map, replaced at the start by the letter and a colon and the rest of the
\* path as it was; and that result is what the entry resolves to when
\* CloseHandle has returned.
C11_FirstPrefixReplaced ==
  [][\A c \in CacheIds, p \in Pids :
       /\ (lk[c][p].pc = "read" /\ lk'[c][p].pc = "close" /\ lk'[c][p].err = "") =>
            LET raw  == OsImageOf(osImage, lk[c][p].handle, p)
                map  == lk[c][p].dm.map
                hits == PrefixHits(raw, map)
            IN  hits # {} =>
                  lk'[c][p].ret =
                    Defined(WithLetter(raw, map, CHOOSE i \in hits : \A j \in hits : i <= j))
       /\ (lk[c][p].pc = "close" /\ pm'[c][p].st = "ok") =>
            (pm'[c][p].def = lk[c][p].ret.def /\ pm'[c][p].v = lk[c][p].ret.v)]_vars

\* a call for the process whose image path starts with the device names of
\* both drives got the path on the first drive of the map
C11_Witness ==
  \E w \in Wins :
    /\ call[w].st = "ok"
    /\ call[w].pid = 4
    /\ call[w].def
    /\ call[w].v = <<"C", ":", "0", "x">>

\* C16: in the processMap the callers share, the entry of a pid is there
\* exactly when a lookup for the pid has been started, and it is put there,
\* pending, in the step that starts the lookup, before any native call of the
\* lookup has returned; an entry that is there stays: it is not removed, a
\* pending entry changes only by settling, a settled entry (resolved, to a
\* path or to undefined, or rejected) does not change, and no second lookup
\* is started for it.
C16_ClaimThenCompute ==
  [][\A p \in Pids :
       LET entry  == pm["passed"][p]
           entry2 == pm'["passed"][p]
           L      == lk["passed"][p]
           L2     == lk'["passed"][p]
       IN  /\ entry.st = "absent" <=> L.started = 0
           /\ entry2.st = "absent" <=> L2.started = 0
           /\ (entry.st = "absent" /\ entry2.st # "absent") =>
                /\ entry2 = Pending
                /\ L2.started = 1
                /\ L2.pc \in {"dm", "open"}
                /\ L2.reads = 0 /\ L2.closes = 0
           /\ entry.st # "absent" =>
                /\ entry2.st # "absent"
                /\ L2.started = L.started
                /\ Settled(entry) => entry2 = entry]_vars

\* the entry of one pid has resolved to undefined and been asked for again,
\* while the entry of the other is pending with no native call of its lookup
\* returned yet
C16_Witness ==
  \E p, q \in Pids : \E w \in Wins :
    /\ p # q
    /\ pm["passed"][p] = Resolved(Undefined)
    /\ call[w].pid = p /\ call[w].st = "pending"
    /\ pm["passed"][q] = Pending
    /\ lk["passed"][q].pc = "open"
    /\ lk["passed"][q].reads = 0

\* C19: once the lookup of a pid has failed, whichever of its calls failed,
\* the entry stays rejected with that failure and its lookup issues nothing
\* more, however many calls for the pid follow with the same processMap; and
\* a call that was made after the failure fails with that failure.
C19_FailureMemoized ==
  [][\A p \in Pids :
       pm["passed"][p].st = "err" =>
         /\ pm'["passed"][p] = pm["passed"][p]
         /\ lk'["passed"][p] = lk["passed"][p]
         /\ lk["passed"][p].started = 1 /\ lk["passed"][p].opens <= 1
         /\ lk["passed"][p].fails # {}
         /\ \A w \in Wins :
              (call[w].pid = p /\ call[w].late /\ call[w].st \notin {"none", "pending"}) =>
                (call[w].st = "err" /\ call[w].e = pm["passed"][p].e)]_vars

\* a call made after OpenProcess had failed for its pid has failed with that
\* failure, and OpenProcess was issued once
C19_Witness ==
  \E w \in Wins :
    /\ call[w].late
    /\ call[w].st = "err"
    /\ call[w].e = Failure("OpenProcess")
    /\ lk["passed"][call[w].pid].fails = {"open"}
    /\ lk["passed"][call[w].pid].opens = 1

(***************************************************************************)
(* fillWindowFields and getWindowByHwnd                                    *)
(***************************************************************************)
\* What runs before the next native call returns: the path promises follow
\* the entries that have settled, the write loops run on, and so does
\* getAllWindows.
Settle(winMid, valMid, fcMid, pmNow) ==
  LET v  == [w \in Wins |->
               [valMid[w] EXCEPT !.path = Joined(@, fcMid[w].cache, pmNow)]]
      wl == [w \in Wins |-> WriteLoop(winMid[w], fcMid[w], v[w])]
  IN  BatchGoesOn([win |-> [w \in Wins |-> wl[w].rec], val |-> v,
                   fc |-> [w \in Wins |-> wl[w].f], batch |-> batch])

Commit(G) ==
  \E g \in {G} :
    /\ win' = g.win
    /\ val' = g.val
    /\ fc' = g.fc
    /\ batch' = g.batch

\* GetWindowTextW returned to the getW run of getTitleByHwnd
TitleReturned(w) ==
  /\ val[w].title.st = "pending"
  /\ \E ev \in GetWEvents(val[w].title.len, quota) :
       /\ quota' = Spend(quota, ev)
       /\ LET title ==
                CASE ev = "insufficient" -> [val[w].title EXCEPT !.len = Grow(@)]
                  [] ev = "other" -> Reject(val[w].title, Failure("GetWindowTextW"))
                  [] OTHER        -> Fulfil(val[w].title, TRUE, osWin[w].title)
          IN  Commit(Settle(win, [val EXCEPT ![w].title = title], fc, pm))
  /\ UNCHANGED <<gwVars, osVars, cacheVars, call>>

\* IsWindowVisible returned to getIsVisibleByHwnd
VisibleReturned(w) ==
  /\ val[w].visible.st = "pending"
  /\ \E ev \in NativeEvents(quota) :
       /\ quota' = Spend(quota, ev)
       /\ LET visible ==
                IF ev = "other" THEN Reject(val[w].visible, Failure("IsWindowVisible"))
                ELSE Fulfil(val[w].visible, TRUE, osWin[w].visible)
          IN  Commit(Settle(win, [val EXCEPT ![w].visible = visible], fc, pm))
  /\ UNCHANGED <<gwVars, osVars, cacheVars, call>>

\* GetWindowThreadProcessId returned to getPidByHwnd: values.pid settles,
\* and a path def that was awaiting it calls getPathByPid, or fails with it
PidReturned(w) ==
  /\ val[w].pid.st = "pending"
  /\ \E ev \in NativeEvents(quota) :
       /\ quota' = Spend(quota, ev)
       /\ LET msg     == Failure("GetWindowThreadProcessId")
              p       == osWin[w].pid
              toPath  == val[w].path.wait = "pid"
          IN  IF ev = "other"
                THEN /\ UNCHANGED cacheVars
                     /\ Commit(Settle(win,
                          [val EXCEPT ![w].pid = Reject(@, msg),
                                      ![w].path = IF toPath THEN Reject(@, msg) ELSE @],
                          fc, pm))
                ELSE /\ IF toPath
                          THEN GetPathByPid(fc[w].cache, p, fc[w].dm,
                                            CacheAtCall(pm, fc[w].cache, Absent),
                                            CacheAtCall(lk, fc[w].cache, LkNone))
                          ELSE UNCHANGED cacheVars
                     /\ Commit(Settle(win,
                          [val EXCEPT ![w].pid = Fulfil(@, TRUE, p),
                                      ![w].path = IF toPath
                                                    THEN [@ EXCEPT !.wait = "lookup", !.pid = p]
                                                    ELSE @],
                          [fc EXCEPT ![w].issued = IF toPath THEN @ \cup {"path"} ELSE @],
                          pm'))
  /\ UNCHANGED <<gwVars, osVars, call>>

\* a native call of a lookup returned
LookupReturned ==
  /\ Lookups
  /\ Commit(Settle(win, val, fc, pm'))
  /\ UNCHANGED call

\* nothing is in flight
Quiet ==
  /\ \A w \in Wins : fc[w].pc # "run"
  /\ \A w \in Wins, m \in MemberSet : val[w][m].st # "pending"
  /\ \A c \in CacheIds, p \in Pids : lk[c][p].pc \in {"none", "done"}

\* the caller waits for its previous call and calls fillWindowFields(window, fields, driveMap, processMap)
CallFill(w) ==
  /\ Quiet
  /\ fc[w].n < MaxFillCalls
  /\ \E arg \in FieldArgs, share \in FillShares :
       LET call1 == FillWindowFields(win[w], fc[w], arg, share.dm, share.cache, FALSE)
       IN  Commit(Settle([win EXCEPT ![w] = call1.rec], [val EXCEPT ![w] = call1.v],
                         [fc EXCEPT ![w] = call1.f], pm))
  /\ UNCHANGED <<gwVars, osVars, quota, cacheVars, call>>

\* ... or getWindowByHwnd(hwnd, requireFields, driveMap, processMap)
CallGetWindowByHwnd(w) ==
  /\ Quiet
  /\ fc[w].n < MaxFillCalls
  /\ \E arg \in FieldArgs, share \in FillShares :
       LET call1 == FillWindowFields(NewWindow(w), fc[w], arg, share.dm, share.cache, TRUE)
       IN  Commit(Settle([win EXCEPT ![w] = call1.rec], [val EXCEPT ![w] = call1.v],
                         [fc EXCEPT ![w] = call1.f], pm))
  /\ UNCHANGED <<gwVars, osVars, quota, cacheVars, call>>

\* between two calls the window changes its title or is shown or hidden
OsChange(w) ==
  /\ Quiet
  /\ fc[w].pc # "idle"
  /\ \E profile \in Profiles :
       /\ profile.pid = osWin[w].pid
       /\ profile # osWin[w]
       /\ osWin' = [osWin EXCEPT ![w] = profile]
  /\ UNCHANGED <<gwVars, osDrives, osImage, quota, cacheVars, call, fillVars>>

InitFill ==
  /\ GwOff
  /\ OsInit
  /\ \E profile \in Profiles :
       osWin = [w \in Wins |-> IF w = ActiveHwnd THEN profile ELSE Profile("a", TRUE, 4)]
  /\ quota = MaxFaults
  /\ CacheOff
  /\ PathOff
  /\ win = [w \in Wins |-> NewWindow(w)]
  /\ val = [w \in Wins |-> NoValues]
  /\ fc = [w \in Wins |-> FcNone]
  /\ BatchOff

NextFill ==
  \/ CallFill(ActiveHwnd)
  \/ CallGetWindowByHwnd(ActiveHwnd)
  \/ OsChange(ActiveHwnd)
  \/ \E w \in Wins : TitleReturned(w)
  \/ \E w \in Wins : VisibleReturned(w)
  \/ \E w \in Wins : PidReturned(w)
  \/ LookupReturned

SpecFill == InitFill /\ [][NextFill]_vars

(***************************************************************************)
(* Claims about fillWindowFields (SpecFill).                               *)
(***************************************************************************)
\* the members that were set on the record when its latest call began
SetOnEntry(w) == {m \in MemberSet : fc[w].entry[m].def}

\* C3: a member that was set on the record when a fillWindowFields call
\* began, whatever its value, has no native call or path lookup issued for it
\* by that call and keeps the value it had.
C3_SetFieldsUntouched ==
  \A w \in Wins :
    fc[w].pc # "idle" =>
      \A m \in SetOnEntry(w) :
        /\ m \notin fc[w].issued
        /\ win[w][m] = fc[w].entry[m]

\* C4: a fillWindowFields call that succeeds after a successful call with
\* the same arguments on the same record leaves the record as it found it.
C4_Idempotent ==
  \A w \in Wins :
    (fc[w].pc = "ok" /\ fc[w].again) => win[w] = fc[w].entry

\* getWindowByHwnd(hwnd, ['path']) has returned the record of w
PathOnlyDone(w) == fc[w].pc = "ok" /\ fc[w].fresh /\ fc[w].fields = {"path"}

\* C5 as stated: a record made from its handle alone and filled with
\* ['path'] has both pid and path, and no record ever has a path without a
\* pid.
C5_PathAndPidAlways ==
  \A w \in Wins :
    /\ PathOnlyDone(w) => (win[w].pid.def /\ win[w].path.def)
    /\ win[w].path.def => win[w].pid.def

\* C5, amended: a record made from its handle alone and filled with
\* ['path'] has the pid the OS reports for the window, and as its path what
\* the lookup of that pid resolved to, which is a path or, when no device
\* name matched, nothing; and no record ever has a path without a pid.
C5_PidWheneverPath ==
  \A w \in Wins :
    /\ PathOnlyDone(w) =>
         /\ win[w].pid = Defined(osWin[w].pid)
         /\ pm[fc[w].cache][osWin[w].pid].st = "ok"
         /\ win[w].path.def = pm[fc[w].cache][osWin[w].pid].def
         /\ win[w].path.v = pm[fc[w].cache][osWin[w].pid].v
    /\ win[w].path.def => win[w].pid.def

\* getWindowByHwnd(hwnd, ['path']) returned a record with pid and path
C5_Witness ==
  \E w \in Wins :
    /\ PathOnlyDone(w)
    /\ win[w].pid.def
    /\ win[w].path.def
    /\ ~win[w].title.def

\* C14: a fillWindowFields call calls defs.pid() once at most, and once
\* when it computes the path; the path computation waits for the pid
\* computation of the call while that is pending, calls getPathByPid only
\* when it has resolved, with the pid it resolved to, and never when it
\* failed.
C14_PidBeforePath ==
  \A w \in Wins :
    fc[w].pc # "idle" =>
      /\ fc[w].pidq <= 1
      /\ "path" \in RangeOf(fc[w].keys) => fc[w].pidq = 1
      /\ val[w].path.wait = "pid" => val[w].pid.st = "pending"
      /\ val[w].pid.st \in {"none", "pending", "err"} => "path" \notin fc[w].issued
      /\ "path" \in fc[w].issued =>
           /\ val[w].pid.st = "ok"
           /\ val[w].pid.v = osWin[w].pid
           /\ val[w].path.pid = val[w].pid.v
           /\ pm[fc[w].cache][val[w].pid.v].st # "absent"

\* a call that asked for every member has one pid query behind it and its
\* path computation awaiting the lookup of the pid that query gave
C14_Witness ==
  \E w \in Wins :
    /\ fc[w].pc = "run"
    /\ {"pid", "path"} \subseteq RangeOf(fc[w].keys)
    /\ {"pid", "path"} \subseteq fc[w].fields
    /\ fc[w].pidq = 1
    /\ val[w].pid.st = "ok"
    /\ val[w].path.st = "pending"
    /\ val[w].path.wait = "lookup"
    /\ pm[fc[w].cache][val[w].pid.v].st = "pending"

\* C15: while a computation that a fillWindowFields call started is pending,
\* and after one has failed, the record is as the call found it: a member is
\* written only when every computation of the call has resolved.
C15_WrittenWhenAllSettled ==
  \A w \in Wins :
    (fc[w].pc # "idle" /\ win[w] # fc[w].entry) =>
      \A m \in RangeOf(fc[w].keys) : val[w][m].st = "ok"

\* C18: whatever a fillWindowFields call has done so far, and whether it
\* fails or returns, a member of the record differs from what it was when
\* the call began only if it is in `fields` and was not set then, or is pid
\* with path in `fields`; the handle does not differ.
C18_FrameOfFill ==
  \A w \in Wins :
    fc[w].pc # "idle" =>
      /\ win[w].hwnd = fc[w].entry.hwnd
      /\ \A m \in MemberSet :
           win[w][m] # fc[w].entry[m] =>
             \/ m \in fc[w].fields /\ ~fc[w].entry[m].def
             \/ m = "pid" /\ "path" \in fc[w].fields

\* the lookup of p in cache c has settled, none of its native calls failed,
\* and no device name of the drive map is a prefix of the raw path it read
\* (nothing is read through the NULL handle)
NoMatch(c, p) ==
  /\ lk[c][p].pc = "done"
  /\ lk[c][p].fails = {}
  /\ PrefixHits(OsImageOf(osImage, IF lk[c][p].hst = "none" THEN 0 ELSE HandleOf(p), p),
                osDrives) = {}

\* the latest call on w asked for a path that the record lacked
PathAsked(w) == fc[w].pc # "idle" /\ "path" \in RangeOf(fc[w].keys)

\* C12: a lookup that finds no device name at the start of the raw path
\* resolves to undefined and does not fail; a fillWindowFields call that
\* asked for the path then has a path computation resolved to undefined,
\* fails only with the failure of another member, and when it has returned
\* the record has no path.
C12_NoMatchIsUndefined ==
  /\ \A c \in CacheIds, p \in Pids : NoMatch(c, p) => pm[c][p] = Resolved(Undefined)
  /\ \A w \in Wins :
       (PathAsked(w) /\ val[w].pid.st = "ok" /\ NoMatch(fc[w].cache, val[w].pid.v)) =>
         /\ val[w].path.st = "ok" /\ ~val[w].path.def
         /\ fc[w].pc = "failed" =>
              \E m \in RangeOf(fc[w].keys) \ {"path"} : val[w][m].st = "err"
         /\ (\A m \in RangeOf(fc[w].keys) : val[w][m].st = "ok") =>
              (fc[w].pc = "ok" /\ ~win[w].path.def)

\* a call that asked for the path of a window whose process has an image
\* path on no drive of the map has returned, the record without a path
C12_Witness ==
  \E w \in Wins :
    /\ PathAsked(w)
    /\ fc[w].pc = "ok"
    /\ val[w].pid.st = "ok"
    /\ lk[fc[w].cache][val[w].pid.v].hst = "closed"
    /\ NoMatch(fc[w].cache, val[w].pid.v)
    /\ win[w].pid.def
    /\ ~win[w].path.def

(***************************************************************************)
(* getAllWindows                                                           *)
(***************************************************************************)
\* the caller calls getAllWindows, and when a call with a list has
\* returned, calls it again with that list and the other `all`:
\* const driveMap = await wwutil.getDriveMap()
BatchCall ==
  /\ Quiet
  /\ batch.pc \in {"idle", "done"}
  /\ batch.n < MaxBatches
  /\ \E args \in BatchArgs :
       /\ batch.pc = "done" =>
            (batch.arg.given /\ args.all = ~batch.all /\ args.arg = batch.arg)
       /\ batch' = [BatchNone EXCEPT
                      !.pc = "dm", !.all = args.all, !.arg = args.arg,
                      !.run = DmBegin(DmNone),
                      !.n = batch.n + 1,
                      !.prev = IF batch.pc = "done"
                                 THEN [ok |-> TRUE, all |-> batch.all, arg |-> batch.arg,
                                       out |-> batch.out]
                                 ELSE NoPrev]
  /\ win' = [w \in Wins |-> NoRecord]
  /\ val' = [w \in Wins |-> NoValues]
  /\ fc' = [w \in Wins |-> FcNone]
  /\ UNCHANGED <<gwVars, osVars, quota, cacheVars, call>>

\* getDriveMap moved to `run`: when it has resolved, const processMap = {}
\* and EnumWindows is issued
BatchAfterDm(run) ==
  /\ batch' = [batch EXCEPT !.run = run,
                            !.pc = CASE run.pc = "done"   -> "enum"
                                     [] run.pc = "failed" -> "failed"
                                     [] OTHER             -> @,
                            !.err = run.err]
  /\ IF run.pc = "done"
       THEN /\ pm' = FreshCache(pm, "passed", Absent)
            /\ lk' = FreshCache(lk, "passed", LkNone)
       ELSE UNCHANGED cacheVars

BatchLetters ==
  /\ batch.pc = "dm"
  /\ batch.run.pc = "letters"
  /\ \E ev \in GetWEvents(batch.run.len, quota) :
       /\ quota' = Spend(quota, ev)
       /\ BatchAfterDm(DmOnLetters(batch.run, ev, OsLetters(osDrives)))
  /\ UNCHANGED <<gwVars, osVars, call, win, val, fc>>

BatchDevice ==
  /\ batch.pc = "dm"
  /\ batch.run.pc = "devices"
  /\ \E i \in 1..Len(batch.run.dev) :
       /\ batch.run.dev[i].st = "pending"
       /\ \E ev \in GetWEvents(batch.run.dev[i].len, quota) :
            /\ quota' = Spend(quota, ev)
            /\ BatchAfterDm(DmOnDevice(batch.run, i, ev,
                                       OsDevice(osDrives, batch.run.letters[i])))
  /\ UNCHANGED <<gwVars, osVars, call, win, val, fc>>

\* EnumWindows returned: the callback has pushed every handle, and the
\* getWindowByHwnd calls of the first pass are made
EnumReturned ==
  /\ batch.pc = "enum"
  /\ \E ev \in NativeEvents(quota) :
       /\ quota' = Spend(quota, ev)
       /\ IF ev = "other"
            THEN /\ batch' = [batch EXCEPT !.pc = "failed", !.err = Failure("EnumWindows")]
                 /\ UNCHANGED <<win, val, fc>>
            ELSE LET hwnds == [i \in 1..NWin |-> i]
                     G     == [win |-> win, val |-> val, fc |-> fc,
                               batch |-> [batch EXCEPT !.pc = "pass1", !.hwnds = hwnds]]
                 IN  Commit(BatchGoesOn(FillEach(G, hwnds, FirstFields(batch.all, batch.arg),
                                                 BatchShare(batch.run), TRUE)))
  /\ UNCHANGED <<gwVars, osVars, cacheVars, call>>

InitBatch ==
  /\ GwOff
  /\ OsInit
  /\ osWin \in Snapshots
  /\ quota = MaxFaults
  /\ CacheOff
  /\ PathOff
  /\ FillOff
  /\ BatchOff

NextBatch ==
  \/ BatchCall
  \/ BatchLetters
  \/ BatchDevice
  \/ EnumReturned
  \/ \E w \in Wins : TitleReturned(w)
  \/ \E w \in Wins : VisibleReturned(w)
  \/ \E w \in Wins : PidReturned(w)
  \/ LookupReturned

SpecBatch == InitBatch /\ [][NextBatch]_vars

\* a native call has been issued and has not returned
NativePending ==
  \/ batch.pc \in {"dm", "enum"}
  \/ \E w \in Wins, m \in {"title", "pid", "visible"} : val[w][m].st = "pending"
  \/ \E c \in CacheIds, p \in Pids : lk[c][p].pc \in {"dm", "open", "read", "close"}

\* a native call that is pending returns (with a result or a failure)
NativeReturns ==
  \/ BatchLetters
  \/ BatchDevice
  \/ EnumReturned
  \/ \E w \in Wins : TitleReturned(w)
  \/ \E w \in Wins : VisibleReturned(w)
  \/ \E w \in Wins : PidReturned(w)
  \/ LookupReturned

\* getAllWindows when no native call hangs; a call signals insufficient
\* buffer until len has reached LenCap at most
SpecBatchLive == SpecBatch /\ WF_vars(NativeReturns)

(***************************************************************************)
(* Claims about getAllWindows (SpecBatch).                                 *)
(***************************************************************************)
\* the handles a getAllWindows call returned
Returned == RangeOf(batch.out)
\* the windows of the snapshot that have a title and are visible
Shown == {w \in Wins : osWin[w].title # "" /\ osWin[w].visible}

\* C6: in one snapshot of the OS, what getAllWindows(false, fields) returns
\* is among what getAllWindows(true, fields) returns, whichever is called
\* first; every record getAllWindows(false, fields) returns has a title
\* that is not empty and visible true; a window without a title or not
\* visible is left out when all is false, and every window is returned
\* when all is true.
C6_FilteredSubset ==
  batch.pc = "done" =>
    /\ batch.all => Returned = RangeOf(batch.hwnds)
    /\ ~batch.all =>
         /\ Returned = RangeOf(batch.hwnds) \cap Shown
         /\ \A w \in Returned :
              /\ win[w].title.def /\ win[w].title.v # ""
              /\ win[w].visible = Defined(TRUE)
    /\ (batch.prev.ok /\ batch.prev.arg = batch.arg) =>
         /\ (~batch.prev.all /\ batch.all) => RangeOf(batch.prev.out) \subseteq Returned
         /\ (batch.prev.all /\ ~batch.all) => Returned \subseteq RangeOf(batch.prev.out)

\* getAllWindows(false, fields) left out a window that getAllWindows(true,
\* fields) had returned in the same snapshot
C6_Witness ==
  /\ batch.pc = "done"
  /\ ~batch.all
  /\ batch.prev.ok /\ batch.prev.all /\ batch.prev.arg = batch.arg
  /\ Returned # {}
  /\ RangeOf(batch.prev.out) \ Returned # {}

\* the native call that returned in this step, to the getDriveMap run that
\* was r and is r2, did not signal insufficient buffer (no length grew) and
\* did not return a result (it took from the allowance of failures)
DmNativeFailed(r, r2) ==
  /\ quota' < quota
  /\ r2.len <= r.len
  /\ \A i \in 1..Len(r.dev) : r2.dev[i].len <= r.dev[i].len

\* C13: the getDriveMap run of a getAllWindows call fails in the step in
\* which a native call of it fails and in no other; it returns in the step
\* in which the last of its queries resolves and not before; and what it
\* returns has, for every drive letter the OS reports and in that order, one
\* entry with the device name the OS reports for the letter, and no other
\* entry.
C13_DriveMapComplete ==
  [][batch.pc = "dm" =>
       LET r       == batch.run
           r2      == batch'.run
           letters == OsLetters(osDrives)
       IN  /\ r2.pc = "failed" <=> DmNativeFailed(r, r2)
           /\ batch'.pc = "failed" <=> r2.pc = "failed"
           /\ r2.pc = "done" <=>
                /\ ~DmNativeFailed(r, r2)
                /\ r2.letters = letters
                /\ Len(r2.dev) = Len(letters)
                /\ \A i \in 1..Len(r2.dev) : r2.dev[i].st = "ok"
           /\ r2.pc = "done" =>
                /\ batch'.pc = "enum"
                /\ DmResult(r2) =
                     [i \in 1..Len(letters) |->
                        <<letters[i], OsDevice(osDrives, letters[i])>>]]_vars

\* getDriveMap has returned the map of both drives after one of its native
\* calls signalled insufficient buffer
C13_Witness ==
  /\ batch.pc = "enum"
  /\ batch.run.pc = "done"
  /\ Len(DmResult(batch.run)) = 2
  /\ DmResult(batch.run) = OsDriveTable
  /\ quota < MaxFaults

\* a getAllWindows call is going on, and it has settled
BatchRunning == batch.pc \in {"dm", "enum", "pass1", "pass2"}
BatchSettled == batch.pc \in {"done", "failed"}
\* no entry of the processMap of the call is pending and no handle one of
\* its lookups opened is open
BatchClean ==
  \A p \in Pids : pm["passed"][p].st # "pending" /\ lk["passed"][p].hst # "open"

\* C20 as stated: when no native call hangs, a getAllWindows call settles,
\* and in the step in which it settles no entry of its processMap is pending
\* and no handle it opened is open.
C20_CleanWhenSettled ==
  /\ BatchRunning ~> BatchSettled
  /\ [][(BatchRunning /\ BatchSettled') => BatchClean']_vars

\* C20, amended: when no native call hangs, a getAllWindows call settles;
\* when it has returned, no entry of its processMap is pending and no handle
\* it opened is open; when it has failed, lookups of it may be pending and
\* their handles open, and each of these entries settles and each of these
\* handles is closed later.
C20_SettlesThenCleans ==
  /\ BatchRunning ~> BatchSettled
  /\ [](batch.pc = "done" => BatchClean)
  /\ \A p \in Pids :
       /\ (pm["passed"][p].st = "pending") ~> Settled(pm["passed"][p])
       /\ (lk["passed"][p].hst = "open") ~> (lk["passed"][p].hst \in {"closed", "close failed"})

\* getAllWindows has failed while a lookup it started holds an open handle
C20_Witness ==
  /\ batch.pc = "failed"
  /\ \E p \in Pids :
       /\ pm["passed"][p].st = "pending"
       /\ lk["passed"][p].hst = "open"

\* C7: a getAllWindows call runs getDriveMap once, and no lookup runs it
\* again; every lookup it causes is in the processMap it made, one lookup
\* for a pid at most, with OpenProcess, the read and CloseHandle issued once
\* at most, through both passes and however the calls on the windows
\* interleave.
C7_OneMapOneLookup ==
  batch.pc # "idle" =>
    /\ batch.run.runs = 1
    /\ \A c \in CacheIds, p \in Pids : lk[c][p].run.runs = 0
    /\ \A p \in Pids :
         /\ lk["default"][p].started = 0
         /\ lk["passed"][p].started <= 1
         /\ lk["passed"][p].opens <= 1
         /\ lk["passed"][p].reads <= 1
         /\ lk["passed"][p].closes <= 1

\* getAllWindows(true, ['path']) has returned two windows of one process,
\* both with the path, after one lookup
C7_Witness ==
  /\ batch.pc = "done"
  /\ batch.all
  /\ \E w1, w2 \in Returned :
       /\ w1 # w2
       /\ win[w1].path.def /\ win[w2].path.def
       /\ win[w1].pid = win[w2].pid
       /\ lk["passed"][win[w1].pid.v].started = 1
       /\ lk["passed"][win[w1].pid.v].opens = 1

====
